---- MODULE Spec2Model ----
(***************************************************************************)
(* The scalar autograd engine of src/03_micrograd/micrograd_final.py:      *)
(* class Value (lines 15-144).  Every Value object ever constructed is an  *)
(* entry of the sequence `nodes`; an object's identity is its index.  A    *)
(* closure stored in Value._backward is the record of the variables it     *)
(* captures (self, other, the exponent) tagged with the rule it applies;   *)
(* the captured `out` is the node that holds the closure.                  *)
(*                                                                         *)
(* Numbers are integers.  tanh and exp (lines 90-100, 112-121) produce     *)
(* irrational values and are not modelled; ** is modelled where its        *)
(* result is an integer, and where Python raises.  Nothing in the file     *)
(* catches an exception: one that is raised ends the run.                  *)
(*                                                                         *)
(* Spec is one cycle of lines 231-237: a forward pass that builds a graph, *)
(* then backward() on one of its nodes.  SpecRepeat lets backward() be     *)
(* called again after it has returned, on any node, with nothing resetting *)
(* the gradients in between.  A forward operation reads only data and a    *)
(* backward pass writes only grad, and a node built later is an operand of *)
(* no earlier node, so building nodes between two backward() calls gives   *)
(* no nodes or gradients that building them all first does not give.       *)
(***************************************************************************)
EXTENDS Integers, Sequences, FiniteSets, TLC

\* ------------------------------------------------------------------ bounds
\* the number of Values of a run of Spec; of a run of SpecRepeat, and the
\* number of backward() calls of a run of SpecRepeat
MaxNodes == 3
MaxNodesRepeat == 2
MaxBackward == 2

\* the data of directly constructed leaves, the plain numbers handed to the
\* operators, and the plain exponents handed to **
LeafData == {-1, 0, 3}
Numbers == {2}
Exponents == {-1, 0, 2}

VARIABLES
    nodes,    \* every Value constructed so far, in construction order
    pc,       \* "forward": the graph is being built; "loop": in backward()'s
              \* for loop; "returned": backward() has returned; "failed": a
              \* forward operation raised; "raised": a rule raised in the loop
    root,     \* backward(): self                       (0 outside a call)
    topo,     \* backward(): the list topo              (<<>> outside a call)
    pos,      \* backward(): index in topo of the next node of reversed(topo)
    grad0,    \* backward(): every node's grad at the moment of the call
    calls,    \* the roots of the backward() calls that have returned
    last      \* the most recent call and how it ended

vars == <<nodes, pc, root, topo, pos, grad0, calls, last>>

Ids == 1..Len(nodes)

Range(s) == {s[i] : i \in DOMAIN s}

Max(a, b) == IF a >= b THEN a ELSE b

\* ------------------------------------------------------- Python arithmetic
\* isinstance(other, Value) / isinstance(other, (int, float)): an operand is
\* either a Value (its index) or a plain number.
IsValue(x) == x.kind = "Value"
ValueArg(i) == [kind |-> "Value", v |-> i]
NumArg(c) == [kind |-> "num", v |-> c]

RECURSIVE NatPow(_, _)
NatPow(b, e) == IF e = 0 THEN 1 ELSE b * NatPow(b, e - 1)

\* b ** e raises ZeroDivisionError for a zero base and a negative exponent.
PowRaises(b, e) == b = 0 /\ e < 0

\* b ** e has an integer value: e >= 0 (0 ** 0 = 1), or b in {1, -1}.
PowIsInt(b, e) == e >= 0 \/ b \in {1, -1}

\* b ** e, where it is an integer
PyPow(b, e) == IF e >= 0 THEN NatPow(b, e) ELSE NatPow(b, -e)

\* other * (self.data ** (other - 1)) * out.grad   (line 68).  With other = 0
\* the product is 0 whatever the (finite) power is.
PowGradRaises(b, n) == PowRaises(b, n - 1)
PowGrad(b, n, g) == IF n = 0 THEN 0 ELSE n * PyPow(b, n - 1) * g

\* ------------------------------------------------------------ construction
NoRule == [rule |-> "none", self |-> 0, other |-> 0, n |-> 0]

\* Value.__init__(data, _children, _op)
ValueInit(data, children, op) ==
    [data |-> data, grad |-> 0, backward |-> NoRule,
     prev |-> Range(children), op |-> op]

NoCall == [call |-> "", self |-> 0, other |-> NumArg(0), out |-> 0, exc |-> ""]

Init ==
    /\ nodes = <<>>
    /\ pc = "forward"
    /\ root = 0
    /\ topo = <<>>
    /\ pos = 0
    /\ grad0 = <<>>
    /\ calls = <<>>
    /\ last = NoCall

frame == <<root, topo, pos, grad0, calls>>

\* Value(d), called directly
Leaf(d) ==
    /\ pc = "forward"
    /\ Len(nodes) < MaxNodes
    /\ nodes' = Append(nodes, ValueInit(d, <<>>, ""))
    /\ last' = [call |-> "Value", self |-> 0, other |-> NumArg(d),
                out |-> Len(nodes) + 1, exc |-> ""]
    /\ UNCHANGED <<pc, frame>>

\* other = other if isinstance(other, Value) else Value(other)  (lines 31, 47):
\* the nodes after the coercion, and the index of the coerced operand
Coerced(ns, other) ==
    IF IsValue(other) THEN ns ELSE Append(ns, ValueInit(other.v, <<>>, ""))
CoercedId(ns, other) == IF IsValue(other) THEN other.v ELSE Len(ns) + 1

\* Each forward operation maps the nodes before the call to the nodes after
\* it; the Value it returns is the last one.

\* Value.__add__(self, other)
add(ns, self, other) ==
    LET ns1 == Coerced(ns, other)
        o == CoercedId(ns, other)
        out == ValueInit(ns1[self].data + ns1[o].data, <<self, o>>, "+")
    IN  Append(ns1, [out EXCEPT !.backward =
                        [rule |-> "add", self |-> self, other |-> o, n |-> 0]])

\* (variant: the sum as a new leaf, with no operands and no rule)
radd_detached(ns, self, other) ==
    Append(ns, ValueInit(other.v + ns[self].data, <<>>, ""))

\* Value.__radd__(self, other): return self + other
radd(ns, self, other) == add(ns, self, other)

\* Value.__mul__(self, other)
mul(ns, self, other) ==
    LET ns1 == Coerced(ns, other)
        o == CoercedId(ns, other)
        out == ValueInit(ns1[self].data * ns1[o].data, <<self, o>>, "*")
    IN  Append(ns1, [out EXCEPT !.backward =
                        [rule |-> "mul", self |-> self, other |-> o, n |-> 0]])

\* Value.__rmul__(self, other): return self * other
rmul(ns, self, other) == mul(ns, self, other)

\* Value.__pow__(self, other): the exception it raises, "" when it returns.
\* The assert is line 63; self.data ** other (line 64) raises for 0 ** -1.
powExc(ns, self, other) ==
    IF IsValue(other) THEN "AssertionError"
    ELSE IF PowRaises(ns[self].data, other.v) THEN "ZeroDivisionError"
    ELSE ""

\* Value.__pow__(self, other), when it returns
pow(ns, self, other) ==
    LET out == ValueInit(PyPow(ns[self].data, other.v), <<self>>, "**")
    IN  Append(ns, [out EXCEPT !.backward =
                       [rule |-> "pow", self |-> self, other |-> 0, n |-> other.v]])

\* Value.relu(self)
relu(ns, self) ==
    LET out == ValueInit(IF ns[self].data < 0 THEN 0 ELSE ns[self].data,
                         <<self>>, "ReLU")
    IN  Append(ns, [out EXCEPT !.backward =
                       [rule |-> "relu", self |-> self, other |-> 0, n |-> 0]])

Operands == {ValueArg(i) : i \in Ids} \cup {NumArg(c) : c \in Numbers}

Returned(name, self, other, ns) ==
    [call |-> name, self |-> self, other |-> other, out |-> Len(ns), exc |-> ""]
Raised(name, self, other, e) ==
    [call |-> name, self |-> self, other |-> other, out |-> 0, exc |-> e]

\* self + other
Add(self, other) ==
    /\ pc = "forward"
    /\ Len(add(nodes, self, other)) <= MaxNodes
    /\ nodes' = add(nodes, self, other)
    /\ last' = Returned("__add__", self, other, nodes')
    /\ UNCHANGED <<pc, frame>>

\* other + self, other a plain number
Radd(self, other) ==
    /\ pc = "forward"
    /\ Len(radd(nodes, self, other)) <= MaxNodes
    /\ nodes' = radd(nodes, self, other)
    /\ last' = Returned("__radd__", self, other, nodes')
    /\ UNCHANGED <<pc, frame>>

\* self * other
Mul(self, other) ==
    /\ pc = "forward"
    /\ Len(mul(nodes, self, other)) <= MaxNodes
    /\ nodes' = mul(nodes, self, other)
    /\ last' = Returned("__mul__", self, other, nodes')
    /\ UNCHANGED <<pc, frame>>

\* other * self, other a plain number
Rmul(self, other) ==
    /\ pc = "forward"
    /\ Len(rmul(nodes, self, other)) <= MaxNodes
    /\ nodes' = rmul(nodes, self, other)
    /\ last' = Returned("__rmul__", self, other, nodes')
    /\ UNCHANGED <<pc, frame>>

\* self ** other
Pow(self, other) ==
    /\ pc = "forward"
    /\ IF powExc(nodes, self, other) # ""
       THEN /\ last' = Raised("__pow__", self, other, powExc(nodes, self, other))
            /\ pc' = "failed"
            /\ UNCHANGED nodes
       ELSE /\ PowIsInt(nodes[self].data, other.v)
            /\ Len(nodes) < MaxNodes
            /\ nodes' = pow(nodes, self, other)
            /\ last' = Returned("__pow__", self, other, nodes')
            /\ UNCHANGED pc
    /\ UNCHANGED frame

\* self.relu()
Relu(self) ==
    /\ pc = "forward"
    /\ Len(nodes) < MaxNodes
    /\ nodes' = relu(nodes, self)
    /\ last' = Returned("relu", self, NumArg(0), nodes')
    /\ UNCHANGED <<pc, frame>>

\* Value.__neg__(self): return self * -1
neg(ns, self) == mul(ns, self, NumArg(-1))

\* Value.__truediv__(self, other), other a Value: return self * other**-1.
\* other**-1 is evaluated first and may raise; then the product is built.
truedivExc(ns, self, other) == powExc(ns, other, NumArg(-1))
truediv(ns, self, other) ==
    LET ns1 == pow(ns, other, NumArg(-1))
    IN  mul(ns1, self, ValueArg(Len(ns1)))

\* -self
Neg(self) ==
    /\ pc = "forward"
    /\ Len(neg(nodes, self)) <= MaxNodes
    /\ nodes' = neg(nodes, self)
    /\ last' = Returned("__neg__", self, NumArg(0), nodes')
    /\ UNCHANGED <<pc, frame>>

\* self / other, other a Value
Truediv(self, other) ==
    /\ pc = "forward"
    /\ IF truedivExc(nodes, self, other) # ""
       THEN /\ last' = Raised("__truediv__", self, ValueArg(other),
                              truedivExc(nodes, self, other))
            /\ pc' = "failed"
            /\ UNCHANGED nodes
       ELSE /\ PowIsInt(nodes[other].data, -1)
            /\ Len(nodes) + 2 <= MaxNodes
            /\ nodes' = truediv(nodes, self, other)
            /\ last' = Returned("__truediv__", self, ValueArg(other), nodes')
            /\ UNCHANGED pc
    /\ UNCHANGED frame

\* ---------------------------------------------------------------- backward
\* build_topo (lines 130-135) on the state st = [visited, topo].  v._prev is a
\* set: the for loop of line 133 takes its elements in an order the program
\* does not fix, so the result is the set of the states any order gives.
\* (variant: topo.append(v) before the loop over the operands)
RECURSIVE build_topo_pre(_, _), ForChildrenPre(_, _)
build_topo_pre(v, st) ==
    IF v \in st.visited THEN {st}
    ELSE ForChildrenPre(nodes[v].prev,
                        {[st EXCEPT !.visited = @ \cup {v},
                                    !.topo = Append(@, v)]})

ForChildrenPre(rest, sts) ==
    IF rest = {} THEN sts
    ELSE UNION {ForChildrenPre(rest \ {child},
                               UNION {build_topo_pre(child, s) : s \in sts}) :
                child \in rest}

RECURSIVE build_topo(_, _), ForChildren(_, _)
build_topo(v, st) ==
    IF v \in st.visited THEN {st}
    ELSE LET st1 == [st EXCEPT !.visited = @ \cup {v}]
         IN  {[s EXCEPT !.topo = Append(@, v)] :
                 s \in ForChildren(nodes[v].prev, {st1})}

ForChildren(rest, sts) ==
    IF rest = {} THEN sts
    ELSE UNION {ForChildren(rest \ {child},
                            UNION {build_topo(child, s) : s \in sts}) :
                child \in rest}

\* the lists topo that lines 127-137 can leave for backward() on r
Topos(r) == {s.topo : s \in build_topo(r, [visited |-> {}, topo |-> <<>>])}

\* The closures _backward, applied to the nodes ns for the node k that holds
\* the closure (the captured out).  The two statements of a rule run in order.

\* (variant: one increment per element of out._prev)
RECURSIVE add_over(_, _, _)
add_over(ns, k, S) ==
    IF S = {} THEN ns
    ELSE LET c == CHOOSE x \in S : TRUE
         IN  add_over([ns EXCEPT ![c].grad = @ + ns[k].grad], k, S \ {c})
add_backward_prev(ns, k) == add_over(ns, k, ns[k].prev)

\* __add__._backward (lines 34-37)
add_backward(ns, k) ==
    LET b == ns[k].backward
        ns1 == [ns EXCEPT ![b.self].grad = @ + ns[k].grad]
    IN  [ns1 EXCEPT ![b.other].grad = @ + ns1[k].grad]

\* (variant: each operand scaled by its own value)
mul_backward_own(ns, k) ==
    LET b == ns[k].backward
        ns1 == [ns EXCEPT ![b.self].grad = @ + ns[b.self].data * ns[k].grad]
    IN  [ns1 EXCEPT ![b.other].grad = @ + ns1[b.other].data * ns1[k].grad]

\* __mul__._backward (lines 50-53)
mul_backward(ns, k) ==
    LET b == ns[k].backward
        ns1 == [ns EXCEPT ![b.self].grad = @ + ns[b.other].data * ns[k].grad]
    IN  [ns1 EXCEPT ![b.other].grad = @ + ns1[b.self].data * ns1[k].grad]

\* __pow__._backward (lines 66-68), when the power does not raise
pow_backward(ns, k) ==
    LET b == ns[k].backward
    IN  [ns EXCEPT ![b.self].grad = @ + PowGrad(ns[b.self].data, b.n, ns[k].grad)]

\* (variant: the gate tests >= 0)
relu_backward_ge(ns, k) ==
    LET b == ns[k].backward
    IN  [ns EXCEPT ![b.self].grad =
                      @ + (IF ns[k].data >= 0 THEN 1 ELSE 0) * ns[k].grad]

\* relu._backward (lines 105-107): (out.data > 0) is the number 1 or 0
relu_backward(ns, k) ==
    LET b == ns[k].backward
    IN  [ns EXCEPT ![b.self].grad =
                      @ + (IF ns[k].data > 0 THEN 1 ELSE 0) * ns[k].grad]

\* node._backward() for node k: whether it raises, and the nodes after it
RuleRaises(ns, k) ==
    LET b == ns[k].backward
    IN  b.rule = "pow" /\ PowGradRaises(ns[b.self].data, b.n)

Rule(ns, k) ==
    CASE ns[k].backward.rule = "none" -> ns
      [] ns[k].backward.rule = "add"  -> add_backward(ns, k)
      [] ns[k].backward.rule = "mul"  -> mul_backward(ns, k)
      [] ns[k].backward.rule = "pow"  -> pow_backward(ns, k)
      [] ns[k].backward.rule = "relu" -> relu_backward(ns, k)

\* (variant: for node in topo)
Forward(t, p) == t[Len(t) - p + 1]

\* reversed(topo): the node of the iteration that has p nodes still to go
Reversed(t, p) == t[p]

\* (variant: the gradients of the visited nodes are cleared before the seed)
EnterZeroing(r) ==
    /\ \E t \in Topos(r) :
          /\ topo' = t
          /\ pos' = Len(t)
          /\ nodes' = [i \in Ids |->
                          IF i = r THEN [nodes[i] EXCEPT !.grad = 1]
                          ELSE IF i \in Range(t) THEN [nodes[i] EXCEPT !.grad = 0]
                          ELSE nodes[i]]
    /\ grad0' = [i \in Ids |-> nodes[i].grad]
    /\ root' = r
    /\ pc' = "loop"
    /\ last' = Returned("backward", r, NumArg(0), <<>>)
    /\ UNCHANGED calls

\* r.backward(), lines 127-140: topo is built and the root is seeded
Enter(r) ==
    /\ \E t \in Topos(r) :
          /\ topo' = t
          /\ pos' = Len(t)
    /\ grad0' = [i \in Ids |-> nodes[i].grad]
    /\ nodes' = [nodes EXCEPT ![r].grad = 1]
    /\ root' = r
    /\ pc' = "loop"
    /\ last' = Returned("backward", r, NumArg(0), <<>>)
    /\ UNCHANGED calls

\* r.backward() after the forward pass (line 237)
BackwardCall(r) ==
    /\ pc = "forward"
    /\ Enter(r)

\* r.backward() after a backward() call has returned
BackwardAgain(r) ==
    /\ pc = "returned"
    /\ Len(calls) < MaxBackward
    /\ Enter(r)

\* one iteration of: for node in reversed(topo): node._backward()
BackwardStep ==
    /\ pc = "loop"
    /\ pos >= 1
    /\ IF RuleRaises(nodes, Reversed(topo, pos))
       THEN /\ pc' = "raised"
            /\ last' = [last EXCEPT !.exc = "ZeroDivisionError"]
            /\ UNCHANGED <<nodes, pos>>
       ELSE /\ nodes' = Rule(nodes, Reversed(topo, pos))
            /\ pos' = pos - 1
            /\ UNCHANGED <<pc, last>>
    /\ UNCHANGED <<root, topo, grad0, calls>>

\* backward() returns: the for loop is exhausted
BackwardReturn ==
    /\ pc = "loop"
    /\ pos = 0
    /\ calls' = Append(calls, root)
    /\ pc' = "returned"
    /\ root' = 0
    /\ topo' = <<>>
    /\ pos' = 0
    /\ grad0' = <<>>
    /\ UNCHANGED <<nodes, last>>

Exponent == {ValueArg(i) : i \in Ids} \cup {NumArg(e) : e \in Exponents}

Next ==
    \/ \E d \in LeafData : Leaf(d)
    \/ \E self \in Ids, other \in Operands : Add(self, other)
    \/ \E self \in Ids, c \in Numbers : Radd(self, NumArg(c))
    \/ \E self \in Ids, other \in Operands : Mul(self, other)
    \/ \E self \in Ids, c \in Numbers : Rmul(self, NumArg(c))
    \/ \E self \in Ids, other \in Exponent : Pow(self, other)
    \/ \E self \in Ids : Neg(self)
    \/ \E self \in Ids, other \in Ids : Truediv(self, other)
    \/ \E self \in Ids : Relu(self)
    \/ \E r \in Ids : BackwardCall(r)
    \/ BackwardStep
    \/ BackwardReturn

Spec == Init /\ [][Next]_vars

\* the operations that build one node from Values, then backward() calls
Small == Len(nodes') <= MaxNodesRepeat

NextRepeat ==
    \/ \E d \in LeafData : Leaf(d) /\ Small
    \/ \E self \in Ids, other \in Ids : Add(self, ValueArg(other)) /\ Small
    \/ \E self \in Ids, other \in Ids : Mul(self, ValueArg(other)) /\ Small
    \/ \E self \in Ids, other \in Exponent : Pow(self, other) /\ Small
    \/ \E self \in Ids : Relu(self) /\ Small
    \/ \E r \in Ids : BackwardCall(r)
    \/ \E r \in Ids : BackwardAgain(r)
    \/ BackwardStep
    \/ BackwardReturn

SpecRepeat == Init /\ [][NextRepeat]_vars

\* ------------------------------------------------------------------ claims
\* the nodes reachable from r through operand edges (r included)
RECURSIVE Reach(_)
Reach(r) == {r} \cup UNION {Reach(c) : c \in nodes[r].prev}

\* backward() is in its for loop or was left by an exception; the loop is done
InCall == pc \in {"loop", "raised"}
Done == pc = "loop" /\ pos = 0

\* the index of node n in the list t
Index(t, n) == CHOOSE i \in DOMAIN t : t[i] = n

\* the reachable consumers of n
Consumers(n) == {c \in Reach(root) : n \in nodes[c].prev}

\* every reachable node had gradient zero when backward() was called
ZeroBefore == \A n \in Reach(root) : grad0[n] = 0

RECURSIVE SumOver(_, _)
SumOver(S, f) ==
    IF S = {} THEN 0
    ELSE LET x == CHOOSE y \in S : TRUE IN f[x] + SumOver(S \ {x}, f)

\* C1: in the ordering backward() computes for a root, every operand of a
\* reachable node stands strictly before that node.
C1_TopoOrder ==
    InCall =>
        \A n \in Reach(root) :
            /\ n \in Range(topo)
            /\ \A c \in nodes[n].prev :
                  /\ c \in Range(topo)
                  /\ Index(topo, c) < Index(topo, n)

\* a node with two distinct operands, one of them an operand of the other
\* too: the two orders of the for loop over _prev both occur
C1_Witness ==
    /\ InCall
    /\ \E n \in Reach(root) : \E a, b \in nodes[n].prev :
          a # b /\ a \in nodes[b].prev

\* C2: when a node's rule is invoked, the rules of all its reachable
\* consumers have been invoked already, and no step of the loop changes the
\* gradient of a node whose rule has been invoked.
C2_AtInvocation ==
    (pc = "loop" /\ pos >= 1) =>
        \A c \in Consumers(topo[pos]) : Index(topo, c) > pos

C2_ConsumersFirst ==
    [][/\ C2_AtInvocation'
       /\ (pc = "loop" /\ pc' = "loop") =>
             \A i \in pos..Len(topo) :
                 nodes'[topo[i]].grad = nodes[topo[i]].grad]_vars

\* a node with two consumers has had its own rule invoked
C2_Witness ==
    /\ pc = "loop"
    /\ \E i \in (pos + 1)..Len(topo) :
          /\ Cardinality(Consumers(topo[i])) >= 2
          /\ nodes[topo[i]].grad # 0

\* the number of operand paths from r down to n, an operand used twice by
\* one node counting twice
Uses(c, n) ==
    (IF nodes[c].backward.self = n THEN 1 ELSE 0)
        + (IF nodes[c].backward.other = n THEN 1 ELSE 0)

RECURSIVE Paths(_, _)
Paths(r, n) ==
    IF n = r THEN 1
    ELSE SumOver({c \in Reach(r) : n \in nodes[c].prev},
                 [c \in Ids |-> Uses(c, n) * Paths(r, c)])

AddOnly(r) == \A n \in Reach(r) : nodes[n].op \in {"", "+"}

\* C3: for a leaf x with gradient 0 and y = x + x, y's operand set is {x} and
\* backward() on y leaves x.grad = 2; in a graph of additions every node
\* ends with one contribution per use, its number of operand paths.
C3_FanOut ==
    /\ (/\ Done
        /\ nodes[root].backward.rule = "add"
        /\ nodes[root].backward.self = nodes[root].backward.other
        /\ nodes[nodes[root].backward.self].prev = {}
        /\ grad0[nodes[root].backward.self] = 0)
       => /\ nodes[root].prev = {nodes[root].backward.self}
          /\ nodes[nodes[root].backward.self].grad = 2
    /\ (Done /\ AddOnly(root) /\ ZeroBefore)
       => \A n \in Reach(root) : nodes[n].grad = Paths(root, n)

C3_Witness ==
    /\ Done
    /\ nodes[root].backward.rule = "add"
    /\ nodes[root].backward.self = nodes[root].backward.other
    /\ nodes[nodes[root].backward.self].prev = {}
    /\ grad0[nodes[root].backward.self] = 0
    /\ nodes[nodes[root].backward.self].grad = 2

\* the local derivative of node c with respect to its operand n, for add and
\* multiply: 1 per use for add, the other operand's value for multiply
Local(c, n) ==
    LET b == nodes[c].backward
    IN  IF b.rule = "add" THEN Uses(c, n)
        ELSE IF b.rule = "mul"
             THEN (IF b.self = n THEN nodes[b.other].data ELSE 0)
                      + (IF b.other = n THEN nodes[b.self].data ELSE 0)
        ELSE 0

\* d(r)/d(n): the sum over the operand paths from r to n of the products of
\* the local derivatives
RECURSIVE Deriv(_, _)
Deriv(r, n) ==
    IF n = r THEN 1
    ELSE SumOver({c \in Reach(r) : n \in nodes[c].prev},
                 [c \in Ids |-> Local(c, n) * Deriv(r, c)])

ArithOnly(r) == \A n \in Reach(r) : nodes[n].op \in {"", "+", "*"}

\* C4: for a graph of additions and multiplications with all gradients zero
\* beforehand, backward() leaves every reachable node with d(root)/d(node)
\* and the root with 1.
C4_GradientIsDerivative ==
    (Done /\ ArithOnly(root) /\ ZeroBefore)
       => /\ nodes[root].grad = 1
          /\ \A n \in Reach(root) : nodes[n].grad = Deriv(root, n)

\* a product whose two operands are a node and a node built from it, and a
\* node multiplied by itself
C4_Witness ==
    /\ Done /\ ArithOnly(root) /\ ZeroBefore
    /\ nodes[root].op = "*"
    /\ \E n \in Reach(root) :
          /\ nodes[n].op = "*"
          /\ nodes[n].backward.self = nodes[n].backward.other
    /\ \E n \in Reach(root) \ {root} :
          Cardinality(Consumers(n)) >= 2 /\ nodes[n].grad \notin {0, 1}

\* the local derivative of node c with respect to its operand n, any rule
LocalAny(c, n) ==
    LET b == nodes[c].backward
    IN  CASE b.rule \in {"add", "mul"} -> Local(c, n)
          [] b.rule = "pow" ->
                IF b.self = n THEN PowGrad(nodes[n].data, b.n, 1) ELSE 0
          [] b.rule = "relu" ->
                IF b.self = n /\ nodes[c].data > 0 THEN 1 ELSE 0
          [] OTHER -> 0

\* what the consumers of n add to n.grad in one pass
Contribution(n) ==
    SumOver(Consumers(n), [c \in Ids |-> LocalAny(c, n) * nodes[c].grad])

\* backward() only assigns the root's gradient; every other reachable node
\* ends with its gradient at the call plus its contributions, and the nodes
\* not reachable keep theirs
C5_Accumulates ==
    Done =>
        \A n \in Ids :
            nodes[n].grad = IF n = root THEN 1
                            ELSE IF n \in Reach(root)
                                 THEN grad0[n] + Contribution(n)
                                 ELSE grad0[n]

\* the second of two backward() calls on the same root is done, with nothing
\* resetting the gradients in between: grad0 holds the gradients of the
\* single call
SecondCall ==
    /\ Done
    /\ calls = <<root>>

Reproduced == \A n \in Reach(root) : nodes[n].grad = grad0[n]

\* C5 as stated: backward() accumulates, and a second call on the same root
\* never reproduces the gradients of the single call.
C5_Original ==
    /\ C5_Accumulates
    /\ SecondCall => ~Reproduced

\* C5, amended: backward() accumulates, and a second call on the same root
\* reproduces the gradients of the single call exactly when the single call
\* left every node other than the root with gradient zero.
C5_Additive ==
    /\ C5_Accumulates
    /\ SecondCall =>
          (Reproduced <=> \A n \in Reach(root) \ {root} : grad0[n] = 0)

\* a second call that finds a leaf with g0 # 0 and leaves it with g0 plus its
\* contribution
C5_Witness ==
    /\ SecondCall
    /\ \E n \in Reach(root) \ {root} :
          /\ nodes[n].prev = {}
          /\ grad0[n] # 0
          /\ Contribution(n) # 0
          /\ nodes[n].grad = grad0[n] + Contribution(n)

\* C6: self ** other with a node as exponent fails at the call, constructs
\* no node and changes no node; with a plain number as exponent it succeeds
\* and returns a new node whose only operand is the base.
C6_PowContract ==
    [][last'.call = "__pow__" =>
          IF IsValue(last'.other)
          THEN /\ last'.exc = "AssertionError"
               /\ last'.out = 0
               /\ nodes' = nodes
          ELSE /\ last'.exc = ""
               /\ last'.out = Len(nodes) + 1
               /\ Len(nodes') = Len(nodes) + 1
               /\ SubSeq(nodes', 1, Len(nodes)) = nodes
               /\ nodes'[last'.out].prev = {last'.self}]_vars

\* the part of C6 about a node as exponent, and about the calls that return
C6_NodeExponentFails ==
    [][last'.call = "__pow__" =>
          /\ IsValue(last'.other) =>
                last'.exc = "AssertionError" /\ nodes' = nodes
          /\ last'.exc # "" => nodes' = nodes
          /\ last'.exc = "" =>
                /\ ~IsValue(last'.other)
                /\ SubSeq(nodes', 1, Len(nodes)) = nodes
                /\ nodes'[last'.out].prev = {last'.self}]_vars

\* C7: relu's value is max(0, input); its rule adds the output's gradient to
\* the input's gradient only when the output value is > 0, so for an input
\* <= 0 the output is 0 and the input's gradient is left as it was.
C7_Forward ==
    \A k \in Ids :
        nodes[k].op = "ReLU" =>
            nodes[k].data = Max(0, nodes[nodes[k].backward.self].data)

C7_Boundary ==
    (/\ Done
     /\ nodes[root].op = "ReLU"
     /\ nodes[nodes[root].backward.self].data <= 0
     /\ grad0[nodes[root].backward.self] = 0)
    => /\ nodes[root].data = 0
       /\ nodes[nodes[root].backward.self].grad = 0

C8_Coerced ==
    (/\ last.call \in {"__add__", "__radd__", "__mul__", "__rmul__"}
     /\ ~IsValue(last.other))
    => LET a == last.self
           o == last.out - 1
           out == nodes[last.out]
           sum == last.call \in {"__add__", "__radd__"}
       IN  /\ last.exc = ""
           /\ last.out = Len(nodes)
           /\ nodes[o] = ValueInit(last.other.v, <<>>, "")
           /\ out.prev = {a, o}
           /\ out.backward = [rule |-> IF sum THEN "add" ELSE "mul",
                              self |-> a, other |-> o, n |-> 0]
           /\ out.data = IF sum THEN nodes[a].data + last.other.v
                         ELSE nodes[a].data * last.other.v

C8_Gradient ==
    (/\ Done
     /\ ZeroBefore
     /\ nodes[root].backward.rule \in {"add", "mul"}
     /\ nodes[root].backward.self # nodes[root].backward.other
     /\ nodes[nodes[root].backward.self].prev = {}
     /\ nodes[nodes[root].backward.other].prev = {})
    => LET a == nodes[root].backward.self
           o == nodes[root].backward.other
       IN  nodes[a].grad = IF nodes[root].backward.rule = "add" THEN 1
                           ELSE nodes[o].data

C8_Symmetry ==
    [][/\ last'.call = "__radd__" =>
             nodes' = add(nodes, last'.self, last'.other)
       /\ last'.call = "__rmul__" =>
             nodes' = mul(nodes, last'.self, last'.other)
       /\ C8_Coerced'
       /\ C8_Gradient']_vars

\* 2 + a for a leaf a of value 3 has returned a node of value 5
C8_Witness ==
    /\ last.call = "__radd__"
    /\ last.other = NumArg(2)
    /\ nodes[last.self].data = 3
    /\ nodes[last.self].prev = {}
    /\ nodes[last.out].data = 5

\* C9: when a backward() call ends, every node reachable from the root is in
\* the ordering exactly once and no other node is, and every node of the
\* ordering has had its rule invoked exactly once.
C9_EachNodeOnce ==
    (Done \/ pc = "raised") =>
        /\ Range(topo) = Reach(root)
        /\ \A n \in Reach(root) :
              Cardinality({i \in DOMAIN topo : topo[i] = n}) = 1
        /\ pos = 0

\* the part of C9 about the ordering
C9_Ordering ==
    InCall =>
        /\ Range(topo) = Reach(root)
        /\ Len(topo) = Cardinality(Reach(root))

\* C10: the operand graph is acyclic, a node's operand set never changes, and
\* every rule invocation of backward() completes.
C10_AcyclicTerminates ==
    [][/\ \A n \in Ids : nodes'[n].prev = nodes[n].prev
       /\ \A n \in 1..Len(nodes') : \A c \in nodes'[n].prev : c < n
       /\ pc' # "raised"]_vars

\* the part of C10 about the graph
C10_Acyclic ==
    [][/\ \A n \in Ids : nodes'[n].prev = nodes[n].prev
       /\ \A n \in 1..Len(nodes') : \A c \in nodes'[n].prev : c < n]_vars
====
